---- MODULE Spec2Model ----
(***************************************************************************)
(* A model of markdown_to_epub.py: configuration resolution, chapter       *)
(* discovery and transformation, container assembly and packaging.         *)
(* Text is a sequence of one-character strings, so that escaping, title    *)
(* extraction and number parsing are computed character by character.     *)
(***************************************************************************)
EXTENDS Integers, Sequences, FiniteSets, TLC

VARIABLES
    pc,             \* position of the run inside main()/build()
    cli,            \* what the user passed on the command line (dest -> value)
    fileCfg,        \* the dict yaml.safe_load returns for the --config file
    args,           \* the argparse Namespace (attributes that are not None)
    config,         \* the dict load_config returns, MarkdownToEpub.config
    inputDir,       \* the directory at config['input_dir']
    staging,        \* the directory _epub_temp (self.temp_dir)
    output,         \* the file at config['output']
    outputParent,   \* Path(config['output']).parent exists
    consolidated,   \* the text written to config['output'] by consolidation
    outputAtStart,  \* the file at config['output'] when the run started
    outputParentAtStart, \* whether the parent existed when the run started
    stagingAtStart, \* the directory _epub_temp when the run started
    archive,        \* entries of the ZipFile being written, in write order
    chapter_files,  \* local chapter_files of the running mode
    chapters,       \* self.chapters
    opf,            \* OEBPS/content.opf
    nav,            \* OEBPS/nav.xhtml
    error,          \* the exception main() caught
    exitCode,       \* status the process exited with (-1 while running)
    fnInput,        \* argument of the function under check
    fnIdx,          \* second argument (chapter position)
    fnResult        \* its result

vars == << pc, cli, fileCfg, args, config, inputDir, staging, output,
           outputParent, consolidated, outputAtStart, outputParentAtStart,
           stagingAtStart, archive, chapter_files, chapters,
           opf, nav, error, exitCode, fnInput, fnIdx, fnResult >>

runVars == << pc, cli, fileCfg, args, config, inputDir, staging, output,
              outputParent, consolidated, outputAtStart, outputParentAtStart,
              stagingAtStart, archive, chapter_files, chapters,
              opf, nav, error, exitCode >>

fnVars == << fnInput, fnIdx, fnResult >>

startVars == << outputAtStart, outputParentAtStart, stagingAtStart >>

\* what only consolidation writes: the parent directory and the text
writeVars == << outputParent, consolidated >>

(***************************************************************************)
(* Bounds of the model.                                                    *)
(***************************************************************************)
MaxXmlLen == 4

MaxContentLen == 5

MaxIdx == 2

(***************************************************************************)
(* Text helpers.                                                           *)
(***************************************************************************)
RECURSIVE Strings(_, _)
Strings(alphabet, n) ==
    IF n = 0 THEN { <<>> }
    ELSE LET shorter == Strings(alphabet, n - 1)
         IN  shorter \cup { Append(s, c) : s \in shorter, c \in alphabet }

DigitChars == << "0", "1", "2", "3", "4", "5", "6", "7", "8", "9" >>

IsDigit(c) == \E d \in 1..10 : DigitChars[d] = c

DigitVal(c) == (CHOOSE d \in 1..10 : DigitChars[d] = c) - 1

\* int(s) for a non-empty string of decimal digits
RECURSIVE IntOf(_)
IntOf(s) ==
    IF s = <<>> THEN 0
    ELSE 10 * IntOf(SubSeq(s, 1, Len(s) - 1)) + DigitVal(s[Len(s)])

\* str(n) for n >= 0
RECURSIVE StrOf(_)
StrOf(n) ==
    IF n < 10 THEN << DigitChars[n + 1] >>
    ELSE Append(StrOf(n \div 10), DigitChars[(n % 10) + 1])

\* a plausible slip: {idx} instead of {idx:02d}, no zero padding
FmtPlain(n) == StrOf(n)

\* f"{n:02d}"
Fmt02(n) == IF n < 10 THEN << "0" >> \o StrOf(n) ELSE StrOf(n)

(***************************************************************************)
(* _escape_xml: five str.replace calls, applied in the source's order.     *)
(***************************************************************************)
\* text.replace(old, new) for a one-character old
RECURSIVE Replace(_, _, _)
Replace(text, old, new) ==
    IF text = <<>> THEN <<>>
    ELSE (IF Head(text) = old THEN new ELSE << Head(text) >>)
         \o Replace(Tail(text), old, new)

EntAmp == << "&", "a", "m", "p", ";" >>
EntLt == << "&", "l", "t", ";" >>
EntGt == << "&", "g", "t", ";" >>
EntQuot == << "&", "q", "u", "o", "t", ";" >>
EntApos == << "&", "a", "p", "o", "s", ";" >>

\* a plausible slip: the ampersand replaced last, after the entities exist
EscapeAmpLast(text) ==
    Replace(Replace(Replace(Replace(Replace(text,
        "<", EntLt), ">", EntGt), "\"", EntQuot), "'", EntApos), "&", EntAmp)

_escape_xml(text) ==
    Replace(Replace(Replace(Replace(Replace(text,
        "&", EntAmp), "<", EntLt), ">", EntGt), "\"", EntQuot), "'", EntApos)

(***************************************************************************)
(* Title extraction of _process_chapters:                                  *)
(*   re.search(r'^#\s+(.+)$', content, re.MULTILINE)                        *)
(*   chapter_title = group(1) if matched else f"Chapter {idx}"             *)
(***************************************************************************)
\* \s of the re module, over the characters of the model
IsSpace(c) == c \in { " ", "\n", "\t" }

\* ^ under re.MULTILINE: the start of the text or just after a newline
AtLineStart(s, i) == i = 1 \/ s[i - 1] = "\n"

\* number of consecutive \s characters of s from position p on
RECURSIVE SpaceRun(_, _)
SpaceRun(s, p) ==
    IF p > Len(s) \/ ~IsSpace(s[p]) THEN 0 ELSE 1 + SpaceRun(s, p + 1)

\* last position of the run of non-newline characters that starts at p
RECURSIVE LineEnd(_, _)
LineEnd(s, p) ==
    IF p + 1 > Len(s) \/ s[p + 1] = "\n" THEN p ELSE LineEnd(s, p + 1)

\* the lengths k that \s+ may take at position i+1 so that (.+)$ still matches
HeadingSpaceLens(s, i) ==
    { k \in 1..SpaceRun(s, i + 1) :
        i + 1 + k <= Len(s) /\ s[i + 1 + k] # "\n" }

\* the pattern matches with its '#' at position i
HeadingAt(s, i) ==
    /\ i \in 1..Len(s)
    /\ AtLineStart(s, i)
    /\ s[i] = "#"
    /\ HeadingSpaceLens(s, i) # {}

\* group(1) of the match at i: \s+ is greedy (the longest k that works),
\* then .+ runs to the end of that line
HeadingGroup(s, i) ==
    LET k == CHOOSE x \in HeadingSpaceLens(s, i) :
                 \A y \in HeadingSpaceLens(s, i) : y <= x
        p == i + 1 + k
    IN  SubSeq(s, p, LineEnd(s, p))

ChapterWord == << "C", "h", "a", "p", "t", "e", "r", " " >>

ChapterTitle(content, idx) ==
    IF \E i \in 1..Len(content) : HeadingAt(content, i)
    THEN LET first == CHOOSE i \in 1..Len(content) :
                          /\ HeadingAt(content, i)
                          /\ \A j \in 1..(i - 1) : ~HeadingAt(content, j)
         IN  HeadingGroup(content, first)
    ELSE ChapterWord \o StrOf(idx)

(***************************************************************************)
(* Python dicts: a function from the keys present to their values.         *)
(***************************************************************************)
EmptyDict == [k \in {} |-> TRUE]

Put(d, key, value) ==
    [k \in DOMAIN d \cup {key} |-> IF k = key THEN value ELSE d[k]]

\* d.setdefault(key, value)
SetDefault(d, key, value) == IF key \in DOMAIN d THEN d ELSE Put(d, key, value)

\* bool(d.get(key)) for a key that holds True/False
Flag(d, key) == key \in DOMAIN d /\ d[key] = TRUE

(***************************************************************************)
(* main(): the argument parser.  dest -> the option's argparse default;    *)
(* an option whose default is None is left out of the Namespace.           *)
(***************************************************************************)
StrDests == { "config", "title", "author", "language", "input_dir", "output",
              "cover", "pdf_paper_size" }

FlagDests == { "consolidate", "no_package", "pdf", "pdf_cover", "pdf_toc" }

ArgDefaults ==
    [ language |-> "en", consolidate |-> FALSE, no_package |-> FALSE,
      pdf |-> FALSE, pdf_cover |-> FALSE, pdf_toc |-> TRUE,
      pdf_paper_size |-> "a4" ]

\* parser.parse_args() on the command line `line`
parse_args(line) ==
    [ d \in DOMAIN line \cup DOMAIN ArgDefaults |->
        IF d \in DOMAIN line THEN line[d] ELSE ArgDefaults[d] ]

(***************************************************************************)
(* load_config                                                             *)
(***************************************************************************)
Untitled == << "U", "n", "t", "i", "t", "l", "e", "d" >>
UnknownAuthor ==
    << "U", "n", "k", "n", "o", "w", "n", " ", "A", "u", "t", "h", "o", "r" >>

\* if args.<dest>: config[<dest>] = args.<dest>      (string options)
OverrideStr(c, a, dest) == IF dest \in DOMAIN a THEN Put(c, dest, a[dest]) ELSE c

\* if args.<dest>: config[<dest>] = True             (store_true options)
OverrideFlag(c, a, dest) == IF a[dest] = TRUE THEN Put(c, dest, TRUE) ELSE c

\* lines 770-776
PdfArgs(c, a) ==
    LET c1 == OverrideFlag(c, a, "pdf")
        c2 == OverrideFlag(c1, a, "pdf_cover")
        c3 == Put(c2, "pdf_toc", a["pdf_toc"])
    IN  OverrideStr(c3, a, "pdf_paper_size")

\* lines 752-767
CliOverrides(c, a) ==
    LET c1 == OverrideStr(c, a, "title")
        c2 == OverrideStr(c1, a, "author")
        c3 == OverrideStr(c2, a, "language")
        c4 == OverrideStr(c3, a, "input_dir")
        c5 == OverrideStr(c4, a, "output")
        c6 == OverrideStr(c5, a, "cover")
        c7 == OverrideFlag(c6, a, "consolidate")
    IN  OverrideFlag(c7, a, "no_package")

\* lines 779-790
Defaults(c) ==
    LET c1 == SetDefault(c, "title", Untitled)
        c2 == SetDefault(c1, "author", UnknownAuthor)
        c3 == SetDefault(c2, "language", "en")
        c4 == SetDefault(c3, "input_dir", "manuscript")
    IN  IF Flag(c4, "consolidate")
        THEN SetDefault(c4, "output", "consolidated-manuscript.md")
        ELSE IF Flag(c4, "pdf") THEN SetDefault(c4, "output", "book.pdf")
        ELSE SetDefault(c4, "output", "book.epub")

\* the dict load_config builds, before the input directory is validated
load_config(a, yaml) ==
    LET c0 == IF "config" \in DOMAIN a THEN yaml ELSE EmptyDict
    IN  Defaults(PdfArgs(CliOverrides(c0, a), a))

(***************************************************************************)
(* The files of the input directory.  A name is prefix + rest + ext, the   *)
(* rest a sequence of characters; content is the text of the file.        *)
(***************************************************************************)
MdFile(prefix, rest, content) ==
    [ prefix |-> prefix, rest |-> rest, ext |-> ".md", content |-> content ]

FileUniverse ==
    { MdFile("chapter-", << "1" >>, << "#", " ", "A", "\n" >>),
      MdFile("chapter-", << "2" >>, << "a", "\n", "#", " ", "B" >>),
      MdFile("chapter-", << "1", "0" >>, << "a" >>),
      MdFile("chapter-", << "0", "2" >>, << "#", "\n", "a" >>),
      MdFile("chapter-", << "i", "n", "t", "r", "o" >>, << "#", " ", "I" >>),
      MdFile("chap-", << "3" >>, << "#", " ", "C" >>),
      MdFile("chap-", << "1" >>, << "#", "#", " ", "D" >>),
      MdFile("", << "n", "o", "t", "e", "s" >>, << "#", " ", "N" >>) }

\* the most files the input directory holds
MaxFiles == 3

NoDir == [ exists |-> FALSE, files |-> {} ]

Dir(files) == [ exists |-> TRUE, files |-> files ]

\* input_dir.glob(prefix + "*.md"), as a set: the listing order is the OS's
glob(dir, prefix) == { f \in dir.files : f.prefix = prefix /\ f.ext = ".md" }

\* every order in which a directory listing may return the files of S
Listings(S) ==
    { l \in [1..Cardinality(S) -> S] : \A f \in S : \E i \in DOMAIN l : l[i] = f }

\* the digits (\d+) takes at the start of text
RECURSIVE DigitRun(_)
DigitRun(text) ==
    IF text = <<>> \/ ~IsDigit(Head(text)) THEN <<>>
    ELSE << Head(text) >> \o DigitRun(Tail(text))

\* re.search(r'<prefix>(\d+)', x.name) is not None
HasNumber(f) == DigitRun(f.rest) # <<>>

\* a plausible slip: (\d) instead of (\d+), the first digit only
SortKeyOneDigit(f) == IntOf(SubSeq(DigitRun(f.rest), 1, 1))

\* key=lambda x: int(re.search(r'<prefix>(\d+)', x.name).group(1))
SortKey(f) == IntOf(DigitRun(f.rest))

\* sorted(listing, key=SortKey): stable, equal keys keep the listing's order
RECURSIVE sorted(_)
sorted(listing) ==
    IF listing = <<>> THEN <<>>
    ELSE LET n == Len(listing)
             x == listing[n]
             front == sorted(SubSeq(listing, 1, n - 1))
             before == SelectSeq(front, LAMBDA y : SortKey(y) <= SortKey(x))
             after == SelectSeq(front, LAMBDA y : SortKey(y) > SortKey(x))
         IN  before \o << x >> \o after

\* the outcomes of one glob-and-sort: the sort key raises AttributeError
\* (None has no .group) when a matched name has no digits after the prefix
SortedGlob(dir, prefix) ==
    IF \E f \in glob(dir, prefix) : ~HasNumber(f)
    THEN { [ raised |-> "AttributeError", files |-> <<>> ] }
    ELSE { [ raised |-> "", files |-> sorted(l) ] : l \in Listings(glob(dir, prefix)) }

\* a discovery without the "if not chapter_files: raise ValueError" check:
\* an empty list of chapters is returned as found
DiscoverNoCheck(dir) ==
    LET primary == SortedGlob(dir, "chapter-")
        found == { d \in primary : d.raised # "" \/ d.files # <<>> }
    IN  IF found # {} THEN found ELSE SortedGlob(dir, "chap-")

\* "Find chapter files": chapter-*.md, then chap-*.md when that found none,
\* then ValueError when both found none
Discover(dir) ==
    LET primary == SortedGlob(dir, "chapter-")
        found == { d \in primary : d.raised # "" \/ d.files # <<>> }
        secondary == { d \in SortedGlob(dir, "chap-") : d.raised # "" \/ d.files # <<>> }
    IN  IF found # {} THEN found
        ELSE IF secondary # {} THEN secondary
        ELSE { [ raised |-> "ValueError: No chapter files found", files |-> <<>> ] }

(***************************************************************************)
(* Paths of the staging tree (relative to _epub_temp), hrefs (relative to  *)
(* OEBPS) and identifiers.  A file name is a sequence of its parts.        *)
(***************************************************************************)
Path(dir, name) == [ dir |-> dir, name |-> name ]

MimetypePath == Path(<< >>, << "mimetype" >>)
ContainerPath == Path(<< "META-INF" >>, << "container.xml" >>)
OpfPath == Path(<< "OEBPS" >>, << "content.opf" >>)
NavPath == Path(<< "OEBPS" >>, << "nav.xhtml" >>)
CssPath == Path(<< "OEBPS", "Styles" >>, << "stylesheet.css" >>)
CoverDocPath == Path(<< "OEBPS", "Text" >>, << "cover.xhtml" >>)

\* f"chapter-{idx:02d}.xhtml"
ChapterName(idx) == << "chapter-" >> \o Fmt02(idx) \o << ".xhtml" >>

ChapterPath(idx) == Path(<< "OEBPS", "Text" >>, ChapterName(idx))

\* f'chap{idx:02d}'
ChapterId(idx) == << "chap" >> \o Fmt02(idx)

\* the cover paths a run may name: Path(p).suffix and Path(p).exists()
CoverArt == [ stem |-> "art", suffix |-> << ".", "jpg" >>, exists |-> TRUE ]
CoverMissing == [ stem |-> "missing", suffix |-> << ".", "png" >>, exists |-> FALSE ]

\* dest of shutil.copy: Images / f"cover{cover_ext}"
CoverImagePath(cover) == Path(<< "OEBPS", "Images" >>, << "cover" >> \o cover.suffix)

\* what an earlier run left in _epub_temp
StaleChapter == ChapterPath(9)

StaleTree == Dir({ MimetypePath, OpfPath, StaleChapter })

(***************************************************************************)
(* The generated documents.                                                *)
(***************************************************************************)
Href(dir, name) == [ dir |-> dir, name |-> name ]

Item(id, href, media_type, properties) ==
    [ id |-> id, href |-> href, media_type |-> media_type,
      properties |-> properties ]

\* the dict _process_chapters appends for the file at position idx
ChapterRecord(idx, f) ==
    [ id |-> ChapterId(idx),
      href |-> Href(<< "Text" >>, ChapterName(idx)),
      title |-> ChapterTitle(f.content, idx),
      filename |-> ChapterName(idx) ]

\* self.config.get('cover') and Path(self.config['cover']).exists()
CoverPresent(cfg) == "cover" \in DOMAIN cfg /\ cfg["cover"].exists

\* self.config.get('cover')
CoverConfigured(cfg) == "cover" \in DOMAIN cfg

\* lines 407-410: the two manifest items of the cover
CoverItems(cover) ==
    LET cover_ext == Tail(cover.suffix)        \* .suffix.lstrip('.')
        media_type == IF cover_ext = << "jpg" >> THEN << "image/", "jpeg" >>
                      ELSE << "image/" >> \o cover_ext
    IN  << Item(<< "cover-image" >>,
                Href(<< "Images" >>, << "cover", "." >> \o cover_ext),
                media_type, "cover-image"),
           Item(<< "cover" >>, Href(<< "Text" >>, << "cover.xhtml" >>),
                << "application/xhtml+xml" >>, "") >>

\* lines 401-414
Manifest(cfg, chaps) ==
    << Item(<< "nav" >>, Href(<< >>, << "nav.xhtml" >>),
            << "application/xhtml+xml" >>, "nav"),
       Item(<< "css" >>, Href(<< "Styles" >>, << "stylesheet.css" >>),
            << "text/css" >>, "") >>
    \o (IF CoverPresent(cfg) THEN CoverItems(cfg["cover"]) ELSE << >>)
    \o [ i \in 1..Len(chaps) |->
           Item(chaps[i].id, chaps[i].href, << "application/xhtml+xml" >>, "") ]

\* lines 416-421
Spine(cfg, chaps) ==
    (IF CoverConfigured(cfg) THEN << << "cover" >> >> ELSE << >>)
    \o [ i \in 1..Len(chaps) |-> chaps[i].id ]

\* the <meta name=... content=.../> elements of the metadata block (line 439)
MetaElements == << [ name |-> "cover", content |-> << "cover-image" >> ] >>

\* self.config.get('publisher', self.config['author'])
Publisher(cfg) == IF "publisher" \in DOMAIN cfg THEN cfg["publisher"] ELSE cfg["author"]

NoOpf ==
    [ title |-> << >>, creator |-> << >>, publisher |-> << >>, meta |-> << >>,
      manifest |-> << >>, spine |-> << >> ]

content_opf(cfg, chaps) ==
    [ title |-> _escape_xml(cfg["title"]),
      creator |-> _escape_xml(cfg["author"]),
      publisher |-> _escape_xml(Publisher(cfg)),
      meta |-> MetaElements,
      manifest |-> Manifest(cfg, chaps),
      spine |-> Spine(cfg, chaps) ]

Link(type, href, text) == [ type |-> type, href |-> href, text |-> text ]

CoverHref == Href(<< "Text" >>, << "cover.xhtml" >>)

\* lines 464-469
TocItems(cfg, chaps) ==
    (IF CoverConfigured(cfg)
     THEN << Link("", CoverHref, << "C", "o", "v", "e", "r" >>) >> ELSE << >>)
    \o [ i \in 1..Len(chaps) |->
           Link("", chaps[i].href, _escape_xml(chaps[i].title)) ]

\* lines 471-477
LandmarkItems(cfg, chaps) ==
    (IF CoverConfigured(cfg) THEN << Link("cover", CoverHref, << >>) >> ELSE << >>)
    \o << Link("toc", Href(<< >>, << "nav.xhtml" >>), << >>) >>
    \o (IF chaps # << >> THEN << Link("bodymatter", chaps[1].href, << >>) >>
        ELSE << >>)

NoNav == [ toc |-> << >>, landmarks |-> << >> ]

nav_xhtml(cfg, chaps) ==
    [ toc |-> TocItems(cfg, chaps), landmarks |-> LandmarkItems(cfg, chaps) ]

(***************************************************************************)
(* The output file and the archive.                                        *)
(***************************************************************************)
NoFile == [ exists |-> FALSE, kind |-> "", complete |-> FALSE ]

\* a file an earlier run (or anything else) left at the output path
OldFile == [ exists |-> TRUE, kind |-> "old", complete |-> TRUE ]

File(kind, complete) == [ exists |-> TRUE, kind |-> kind, complete |-> complete ]

Entry(arcname, compress_type) ==
    [ arcname |-> arcname, compress_type |-> compress_type ]

\* a plausible slip: the mimetype written with the archive's default method
MimetypeEntryDeflated == Entry(MimetypePath, "ZIP_DEFLATED")

\* lines 710-714
MimetypeEntry == Entry(MimetypePath, "ZIP_STORED")

\* every path the staging tree of a run may hold, in one listing order
TreeUniverse ==
    << MimetypePath, ContainerPath, OpfPath, NavPath, CssPath,
       CoverImagePath(CoverArt), CoverDocPath >>
    \o [ i \in 1..MaxFiles |-> ChapterPath(i) ]
    \o << StaleChapter >>

Reverse(seq) == [ i \in 1..Len(seq) |-> seq[Len(seq) + 1 - i] ]

\* the orders os.walk may yield the files of the tree in: the directory
\* listing order is the OS's; the model draws it from two opposite listings
os_walk(tree) ==
    LET listing == SelectSeq(TreeUniverse, LAMBDA p : p \in tree.files)
    IN  { listing, Reverse(listing) }

\* lines 717-724: the entries the loop writes for one walk order
WalkEntries(order) ==
    LET others == SelectSeq(order, LAMBDA p : p.name # << "mimetype" >>)
    IN  [ i \in 1..Len(others) |-> Entry(others[i], "ZIP_DEFLATED") ]

(***************************************************************************)
(* The run: main() -> load_config -> MarkdownToEpub.build().               *)
(***************************************************************************)
\* an --output path inside a directory of its own (the default outputs,
\* book.epub and the like, lie in the current directory)
OutputInDir == "dist/book.out"

\* the command lines of the runs: an optional --cover, an optional --output
\* and the mode switches
RunClis ==
    { [ d \in flags \cup o \cup (IF c = {} THEN {} ELSE {"cover"}) |->
          IF d = "cover" THEN (CHOOSE x \in c : TRUE)
          ELSE IF d = "output" THEN OutputInDir ELSE TRUE ] :
      flags \in SUBSET { "consolidate", "pdf", "no_package" },
      o \in { {}, {"output"} },
      c \in { {}, {CoverArt}, {CoverMissing} } }

InputDirs ==
    { NoDir } \cup
    { Dir(S) : S \in { T \in SUBSET FileUniverse : Cardinality(T) <= MaxFiles } }

FnIdle == fnInput = << >> /\ fnIdx = 0 /\ fnResult = << >>

RunStart ==
    /\ pc = "main"
    /\ args = EmptyDict
    /\ config = EmptyDict
    /\ staging \in { NoDir, StaleTree }
    /\ output \in { NoFile, OldFile }
    /\ outputParent \in BOOLEAN
    /\ ~outputParent => "output" \in DOMAIN cli /\ ~output.exists
    /\ consolidated = << >>
    /\ outputAtStart = output
    /\ outputParentAtStart = outputParent
    /\ stagingAtStart = staging
    /\ archive = << >>
    /\ chapter_files = << >>
    /\ chapters = << >>
    /\ opf = NoOpf
    /\ nav = NoNav
    /\ error = ""
    /\ exitCode = -1

Init ==
    /\ cli \in RunClis
    /\ fileCfg = EmptyDict
    /\ inputDir \in InputDirs
    /\ RunStart
    /\ FnIdle

\* main(), lines 842-844: except Exception -> print ERROR, exit(1)
Raise(e) == pc' = "exited" /\ error' = e /\ exitCode' = 1

\* main() returns after build() returned
Return == pc' = "exited" /\ exitCode' = 0 /\ UNCHANGED error

\* main(), line 836
ParseArgs ==
    /\ pc = "main"
    /\ args' = parse_args(cli)
    /\ pc' = "load_config"
    /\ UNCHANGED << cli, fileCfg, config, inputDir, staging, output,
                    startVars, writeVars, archive, chapter_files, chapters, opf, nav,
                    error, exitCode, fnVars >>

\* load_config, lines 742-796, and MarkdownToEpub.__init__
LoadConfig ==
    /\ pc = "load_config"
    /\ LET c == load_config(args, fileCfg)
       IN  \/ /\ inputDir.exists
              /\ config' = c
              /\ pc' = "build"
              /\ UNCHANGED << error, exitCode >>
           \/ /\ ~inputDir.exists
              /\ Raise("ValueError: Input directory not found")
              /\ UNCHANGED config
    /\ UNCHANGED << cli, fileCfg, args, inputDir, staging, output,
                    startVars, writeVars, archive, chapter_files, chapters, opf, nav,
                    fnVars >>

\* f.read().strip(): white space removed at both ends
RECURSIVE lstrip(_)
lstrip(text) ==
    IF text # << >> /\ IsSpace(Head(text)) THEN lstrip(Tail(text)) ELSE text

RECURSIVE rstrip(_)
rstrip(text) ==
    IF text # << >> /\ IsSpace(text[Len(text)])
    THEN rstrip(SubSeq(text, 1, Len(text) - 1)) ELSE text

strip(text) == rstrip(lstrip(text))

\* the chapter separator, "\n\n---\n\n"
Separator == << "\n", "\n", "-", "-", "-", "\n", "\n" >>

\* a plausible slip: the separator appended before every chapter, the
\* first included (the test idx > 1 left out)
RECURSIVE ConsolidateSepEvery(_)
ConsolidateSepEvery(files) ==
    IF files = << >> THEN << >>
    ELSE LET n == Len(files)
         IN  ConsolidateSepEvery(SubSeq(files, 1, n - 1))
               \o Separator \o strip(files[n].content)

\* lines 110-122 and ''.join(consolidated): for idx = 1..n, the separator
\* when idx > 1, then the stripped content of the file
RECURSIVE Consolidate(_)
Consolidate(files) ==
    IF files = << >> THEN << >>
    ELSE LET n == Len(files)
         IN  Consolidate(SubSeq(files, 1, n - 1))
               \o (IF n > 1 THEN Separator ELSE << >>)
               \o strip(files[n].content)

\* _consolidate_chapters, lines 85-133: discovery, the files read, the
\* parent of the output created (line 125), the text written (126-127).
\* The filesystem may fail at each of these steps.
ConsolidateChapters ==
    /\ pc = "build"
    /\ Flag(config, "consolidate")
    /\ \E d \in Discover(inputDir) :
         \/ /\ d.raised # ""
            /\ Raise(d.raised)
            /\ UNCHANGED << chapter_files, output, writeVars >>
         \/ /\ d.raised = ""
            /\ chapter_files' = d.files
            /\ \/ /\ outputParent' = TRUE
                  /\ output' = File("markdown", TRUE)
                  /\ consolidated' = Consolidate(d.files)
                  /\ Return
               \/ /\ Raise("OSError")                 \* open/read, or mkdir
                  /\ UNCHANGED << output, writeVars >>
               \/ /\ Raise("OSError")                 \* open(output_path, 'w')
                  /\ outputParent' = TRUE
                  /\ UNCHANGED << output, consolidated >>
               \/ /\ Raise("OSError")                 \* f.write
                  /\ outputParent' = TRUE
                  /\ output' = File("markdown", FALSE)
                  /\ consolidated' = << >>
    /\ UNCHANGED << cli, fileCfg, args, config, inputDir, staging,
                    startVars, archive, chapters, opf, nav, fnVars >>

\* _convert_to_pdf, lines 135-254
ConvertToPdf ==
    /\ pc = "build"
    /\ ~Flag(config, "consolidate")
    /\ Flag(config, "pdf")
    /\ \E d \in Discover(inputDir) :
         \/ /\ d.raised # ""
            /\ Raise(d.raised)
            /\ UNCHANGED << chapter_files, output >>
         \/ /\ d.raised = ""
            /\ chapter_files' = d.files
            /\ \/ outputParent /\ output' = File("pdf", TRUE) /\ Return
               \/ Raise("RuntimeError: Pandoc is not installed") /\ UNCHANGED output
               \/ Raise("RuntimeError: PDF conversion failed") /\ UNCHANGED output
    /\ UNCHANGED << cli, fileCfg, args, config, inputDir, staging,
                    startVars, writeVars, archive, chapters, opf, nav, fnVars >>

\* a plausible slip: mkdir(exist_ok=True) without the rmtree before it
KeepTree(old) == Dir(old.files)

\* _create_structure: rmtree when the directory exists, then the skeleton
FreshTree(old) == Dir({})

\* _create_structure, lines 256-271
CreateStructure ==
    /\ pc = "build"
    /\ ~Flag(config, "consolidate")
    /\ ~Flag(config, "pdf")
    /\ \/ /\ staging' = FreshTree(staging)
          /\ pc' = "process_chapters"
          /\ UNCHANGED << error, exitCode >>
       \/ /\ staging' \in { staging, NoDir }
          /\ Raise("OSError")
    /\ UNCHANGED << cli, fileCfg, args, config, inputDir, output,
                    startVars, writeVars, archive, chapter_files, chapters, opf, nav,
                    fnVars >>

\* _process_chapters, lines 273-325
ProcessChapters ==
    /\ pc = "process_chapters"
    /\ \E d \in Discover(inputDir) :
         \/ /\ d.raised # ""
            /\ Raise(d.raised)
            /\ UNCHANGED << chapter_files, chapters, staging >>
         \/ /\ d.raised = ""
            /\ chapter_files' = d.files
            /\ \E done \in 0..Len(d.files) :
                 /\ chapters' = [ i \in 1..done |-> ChapterRecord(i, d.files[i]) ]
                 /\ staging' = Dir(staging.files \cup { ChapterPath(i) : i \in 1..done })
                 /\ IF done = Len(d.files)
                    THEN pc' = "copy_assets" /\ UNCHANGED << error, exitCode >>
                    ELSE Raise("OSError")
    /\ UNCHANGED << cli, fileCfg, args, config, inputDir, output,
                    startVars, writeVars, archive, opf, nav, fnVars >>

\* _copy_assets, lines 344-357
CopyAssets ==
    /\ pc = "copy_assets"
    /\ \/ /\ CoverPresent(config)
          /\ staging' = Dir(staging.files \cup
                            { CoverImagePath(config["cover"]), CoverDocPath })
          /\ pc' = "generate_mimetype"
          /\ UNCHANGED << error, exitCode >>
       \/ /\ CoverPresent(config)
          /\ staging' \in { staging,
                            Dir(staging.files \cup { CoverImagePath(config["cover"]) }) }
          /\ Raise("OSError")
       \/ /\ ~CoverPresent(config)
          /\ pc' = "generate_mimetype"
          /\ UNCHANGED << staging, error, exitCode >>
    /\ UNCHANGED << cli, fileCfg, args, config, inputDir, output,
                    startVars, writeVars, archive, chapter_files, chapters, opf, nav,
                    fnVars >>

\* open(path, 'w') and f.write: the file is in the tree, or OSError is raised
WriteStaged(path, next) ==
    \/ /\ staging' = Dir(staging.files \cup { path })
       /\ pc' = next
       /\ UNCHANGED << error, exitCode >>
    \/ /\ Raise("OSError")
       /\ UNCHANGED staging

\* _generate_mimetype, lines 380-383
GenerateMimetype ==
    /\ pc = "generate_mimetype"
    /\ WriteStaged(MimetypePath, "generate_container_xml")
    /\ UNCHANGED << cli, fileCfg, args, config, inputDir, output,
                    startVars, writeVars, archive, chapter_files, chapters, opf, nav,
                    fnVars >>

\* _generate_container_xml, lines 385-395
GenerateContainerXml ==
    /\ pc = "generate_container_xml"
    /\ WriteStaged(ContainerPath, "generate_content_opf")
    /\ UNCHANGED << cli, fileCfg, args, config, inputDir, output,
                    startVars, writeVars, archive, chapter_files, chapters, opf, nav,
                    fnVars >>

\* _generate_content_opf, lines 397-460
GenerateContentOpf ==
    /\ pc = "generate_content_opf"
    /\ \/ /\ opf' = content_opf(config, chapters)
          /\ staging' = Dir(staging.files \cup { OpfPath })
          /\ pc' = "generate_nav_xhtml"
          /\ UNCHANGED << error, exitCode >>
       \/ /\ Raise("OSError")
          /\ UNCHANGED << opf, staging >>
    /\ UNCHANGED << cli, fileCfg, args, config, inputDir, output,
                    startVars, writeVars, archive, chapter_files, chapters, nav,
                    fnVars >>

\* _generate_nav_xhtml, lines 462-507
GenerateNavXhtml ==
    /\ pc = "generate_nav_xhtml"
    /\ \/ /\ nav' = nav_xhtml(config, chapters)
          /\ staging' = Dir(staging.files \cup { NavPath })
          /\ pc' = "generate_css"
          /\ UNCHANGED << error, exitCode >>
       \/ /\ Raise("OSError")
          /\ UNCHANGED << nav, staging >>
    /\ UNCHANGED << cli, fileCfg, args, config, inputDir, output,
                    startVars, writeVars, archive, chapter_files, chapters, opf,
                    fnVars >>

\* _generate_css, lines 509-698
GenerateCss ==
    /\ pc = "generate_css"
    /\ WriteStaged(CssPath, "package")
    /\ UNCHANGED << cli, fileCfg, args, config, inputDir, output,
                    startVars, writeVars, archive, chapter_files, chapters, opf, nav,
                    fnVars >>

\* build(), lines 75-80: no_package leaves the folder and returns
LeaveUnpackaged ==
    /\ pc = "package"
    /\ Flag(config, "no_package")
    /\ Return
    /\ UNCHANGED << cli, fileCfg, args, config, inputDir, staging, output,
                    startVars, writeVars, archive, chapter_files, chapters, opf, nav,
                    fnVars >>

\* _package_epub, lines 702-708: unlink an existing output, open the ZipFile
PackageOpen ==
    /\ pc = "package"
    /\ ~Flag(config, "no_package")
    /\ \/ /\ outputParent
          /\ output' = File("epub", FALSE)
          /\ pc' = "package_mimetype"
          /\ UNCHANGED << error, exitCode >>
       \/ /\ ~outputParent                \* open() of the ZipFile, line 708
          /\ Raise("FileNotFoundError")
          /\ UNCHANGED output
       \/ /\ output' \in { output, NoFile }
          /\ Raise("OSError")
    /\ archive' = << >>
    /\ UNCHANGED << cli, fileCfg, args, config, inputDir, staging,
                    startVars, writeVars, chapter_files, chapters, opf, nav, fnVars >>

\* _package_epub, lines 710-714: the first epub.write
PackageMimetype ==
    /\ pc = "package_mimetype"
    /\ \/ /\ MimetypePath \in staging.files
          /\ archive' = Append(archive, MimetypeEntry)
          /\ pc' = "package_walk"
          /\ UNCHANGED << error, exitCode >>
       \/ /\ Raise("OSError")
          /\ UNCHANGED archive
    /\ UNCHANGED << cli, fileCfg, args, config, inputDir, staging, output,
                    startVars, writeVars, chapter_files, chapters, opf, nav, fnVars >>

\* _package_epub, lines 716-724, and the ZipFile closing; then build(),
\* lines 72-74.  A write that raises leaves the entries written before it.
PackageWalk ==
    /\ pc = "package_walk"
    /\ \E order \in os_walk(staging) :
         LET entries == WalkEntries(order)
         IN  \E written \in 0..Len(entries) :
               /\ archive' = archive \o SubSeq(entries, 1, written)
               /\ IF written = Len(entries)
                  THEN /\ output' = File("epub", TRUE)
                       /\ pc' = "cleanup"
                       /\ UNCHANGED << error, exitCode >>
                  ELSE /\ Raise("OSError")
                       /\ UNCHANGED output
    /\ UNCHANGED << cli, fileCfg, args, config, inputDir, staging,
                    startVars, writeVars, chapter_files, chapters, opf, nav, fnVars >>

\* _cleanup, lines 726-729, called at line 83
Cleanup ==
    /\ pc = "cleanup"
    /\ \/ staging' = NoDir /\ Return
       \/ staging' = staging /\ Raise("OSError")
    /\ UNCHANGED << cli, fileCfg, args, config, inputDir, output,
                    startVars, writeVars, archive, chapter_files, chapters, opf, nav,
                    fnVars >>

Next ==
    \/ ParseArgs
    \/ LoadConfig
    \/ ConsolidateChapters
    \/ ConvertToPdf
    \/ CreateStructure
    \/ ProcessChapters
    \/ CopyAssets
    \/ GenerateMimetype
    \/ GenerateContainerXml
    \/ GenerateContentOpf
    \/ GenerateNavXhtml
    \/ GenerateCss
    \/ LeaveUnpackaged
    \/ PackageOpen
    \/ PackageMimetype
    \/ PackageWalk
    \/ Cleanup

Spec == Init /\ [][Next]_vars

(***************************************************************************)
(* load_config over command lines and configuration files:                 *)
(* the run stops once the configuration is resolved.                       *)
(***************************************************************************)
\* the most options a command line gives, and the most keys a file sets
MaxGiven == 2

CliDests == StrDests \cup FlagDests

\* the values a user may pass for a dest (--no-pdf-toc passes pdf_toc False)
CliValues(dest) ==
    CASE dest = "config" -> { "book.yaml" }
      [] dest = "title" -> { << "T", "&", "C" >> }
      [] dest = "author" -> { << "M", "e" >> }
      [] dest = "language" -> { "fr" }
      [] dest = "input_dir" -> { "chapters" }
      [] dest = "output" -> { "my.epub" }
      [] dest = "cover" -> { CoverArt }
      [] dest = "pdf_paper_size" -> { "letter" }
      [] dest = "pdf_toc" -> { TRUE, FALSE }
      [] OTHER -> { TRUE }

FileKeys == (CliDests \ { "config" }) \cup { "publisher" }

\* the values a configuration file may set for a key
FileValues(key) ==
    CASE key = "title" -> { << "F" >> }
      [] key = "author" -> { << "G" >> }
      [] key = "publisher" -> { << "P" >> }
      [] key = "language" -> { "de" }
      [] key = "input_dir" -> { "drafts" }
      [] key = "output" -> { "file.epub" }
      [] key = "cover" -> { CoverMissing }
      [] key = "pdf_paper_size" -> { "a5" }
      [] key = "pdf_toc" -> { FALSE }
      [] OTHER -> { TRUE }

RECURSIVE CliLines(_)
CliLines(dests) ==
    IF dests = {} THEN { EmptyDict }
    ELSE LET dest == CHOOSE d \in dests : TRUE
         IN  { Put(l, dest, v) : l \in CliLines(dests \ {dest}), v \in CliValues(dest) }

RECURSIVE YamlDicts(_)
YamlDicts(keys) ==
    IF keys = {} THEN { EmptyDict }
    ELSE LET key == CHOOSE k \in keys : TRUE
         IN  { Put(y, key, v) : y \in YamlDicts(keys \ {key}), v \in FileValues(key) }

InitConfig ==
    /\ cli \in UNION { CliLines(D) :
                       D \in { E \in SUBSET CliDests : Cardinality(E) <= MaxGiven } }
    /\ fileCfg \in UNION { YamlDicts(K) :
                           K \in { E \in SUBSET FileKeys : Cardinality(E) <= MaxGiven } }
    /\ "config" \notin DOMAIN cli => fileCfg = EmptyDict
    /\ inputDir \in { NoDir, Dir({}) }
    /\ RunStart
    /\ staging = NoDir
    /\ output = NoFile
    /\ FnIdle

NextConfig ==
    \/ ParseArgs
    \/ LoadConfig

SpecConfig == InitConfig /\ [][NextConfig]_vars

(***************************************************************************)
(* _escape_xml over every text of a bounded length.                        *)
(***************************************************************************)
XmlAlphabet == { "&", "<", ">", "\"", "'", "l", "t", ";" }

RunIdle ==
    /\ cli = EmptyDict
    /\ inputDir = NoDir
    /\ fileCfg = EmptyDict
    /\ args = EmptyDict
    /\ config = EmptyDict
    /\ staging = NoDir
    /\ output = NoFile
    /\ outputParent = TRUE
    /\ consolidated = << >>
    /\ outputAtStart = NoFile
    /\ outputParentAtStart = TRUE
    /\ stagingAtStart = NoDir
    /\ archive = << >>
    /\ chapter_files = << >>
    /\ chapters = << >>
    /\ opf = NoOpf
    /\ nav = NoNav
    /\ error = ""
    /\ exitCode = -1

InitEscape ==
    /\ pc = "escape"
    /\ fnInput \in Strings(XmlAlphabet, MaxXmlLen)
    /\ fnIdx = 0
    /\ fnResult = << >>
    /\ RunIdle

EscapeXml ==
    /\ pc = "escape"
    /\ fnResult' = _escape_xml(fnInput)
    /\ pc' = "escaped"
    /\ UNCHANGED << cli, fileCfg, args, config, inputDir, staging, output,
                    startVars, writeVars, archive, chapter_files, chapters, opf, nav,
                    error, exitCode, fnInput, fnIdx >>

NextEscape == EscapeXml

SpecEscape == InitEscape /\ [][NextEscape]_vars

(***************************************************************************)
(* The title extraction of _process_chapters over every chapter text of a  *)
(* bounded length and every chapter position.                              *)
(***************************************************************************)
MdAlphabet == { "#", " ", "\n", "a" }

InitTitle ==
    /\ pc = "title"
    /\ fnInput \in Strings(MdAlphabet, MaxContentLen)
    /\ fnIdx \in 1..MaxIdx
    /\ fnResult = << >>
    /\ RunIdle

ExtractTitle ==
    /\ pc = "title"
    /\ fnResult' = ChapterTitle(fnInput, fnIdx)
    /\ pc' = "titled"
    /\ UNCHANGED << cli, fileCfg, args, config, inputDir, staging, output,
                    startVars, writeVars, archive, chapter_files, chapters, opf, nav,
                    error, exitCode, fnInput, fnIdx >>

NextTitle == ExtractTitle

SpecTitle == InitTitle /\ [][NextTitle]_vars

(***************************************************************************)
(* Properties.                                                             *)
(***************************************************************************)
\* the integer a source file name embeds after its prefix
EmbeddedNumber(f) == IntOf(DigitRun(f.rest))

\* the files chapter discovery matches: chapter-*.md, else chap-*.md
Matched ==
    IF glob(inputDir, "chapter-") # {} THEN glob(inputDir, "chapter-")
    ELSE glob(inputDir, "chap-")

IsChapterId(id) == Head(id) = "chap"

EpubMode == ~Flag(config, "consolidate") /\ ~Flag(config, "pdf")

\* C1: once the package document is generated, and the matched files embed
\* pairwise distinct numbers, the chapter itemrefs of the spine are chap01,
\* chap02, ... for the matched files taken in strictly ascending order of the
\* embedded integer (whatever order the directory listed them in), every
\* matched file has its itemref, and the manifest lists the chapter items in
\* the same order.
C1_SpineNumericOrder ==
    (opf # NoOpf /\ \A f, g \in Matched :
                      f # g => EmbeddedNumber(f) # EmbeddedNumber(g))
    => LET refs == SelectSeq(opf.spine, IsChapterId)
           items == SelectSeq(opf.manifest, LAMBDA it : IsChapterId(it.id))
       IN  /\ Len(refs) = Cardinality(Matched)
           /\ { chapter_files[k] : k \in DOMAIN chapter_files } = Matched
           /\ \A k \in DOMAIN refs :
                /\ refs[k] = ChapterId(k)
                /\ chapters[k] = ChapterRecord(k, chapter_files[k])
           /\ \A i, j \in DOMAIN chapter_files :
                i < j => EmbeddedNumber(chapter_files[i])
                           < EmbeddedNumber(chapter_files[j])
           /\ [ k \in DOMAIN items |-> items[k].id ] = refs

\* C1 witness: chapter-2.md, chapter-10.md and chapter-1.md were found, a
\* cover is configured, and the spine is cover, chap01, chap02, chap03 for
\* the files numbered 1, 2, 10.
C1_Witness ==
    /\ opf # NoOpf
    /\ Len(chapter_files) = 3
    /\ chapter_files[1].rest = << "1" >>
    /\ chapter_files[2].rest = << "2" >>
    /\ chapter_files[3].rest = << "1", "0" >>
    /\ opf.spine = << << "cover" >>, ChapterId(1), ChapterId(2), ChapterId(3) >>

\* C2: every idref of the spine of the package document is the id of an
\* item of its manifest.
C2_SpineIdrefsInManifest ==
    \A i \in DOMAIN opf.spine :
        \E j \in DOMAIN opf.manifest : opf.manifest[j].id = opf.spine[i]

\* C3: in the archive _package_epub writes, the first entry is 'mimetype'
\* and is stored, no later entry is a mimetype, and once the archive is
\* complete every other file of the staging tree is an entry after it.
C3_MimetypeFirstStored ==
    /\ archive # << >> =>
         /\ archive[1].arcname = MimetypePath
         /\ archive[1].compress_type = "ZIP_STORED"
         /\ \A i \in 2..Len(archive) : archive[i].arcname.name # << "mimetype" >>
    /\ pc = "cleanup" =>
         /\ archive # << >>
         /\ \A p \in staging.files \ { MimetypePath } :
              \E i \in 2..Len(archive) : archive[i].arcname = p

\* C3 witness: a complete archive of a tree with a cover and two chapters,
\* whose walk did not list the mimetype first.
C3_Witness ==
    /\ pc = "cleanup"
    /\ output = File("epub", TRUE)
    /\ Len(archive) = 9
    /\ archive[2].arcname = ChapterPath(2)

\* C4: once the package and navigation documents are generated: with a
\* cover configured and existing, the manifest has exactly one 'cover-image'
\* item and the spine starts with the cover document; with no cover
\* configured there is no cover image, no cover.xhtml, no cover item in
\* manifest or spine, no cover link in the navigation document and no cover
\* reference in the metadata.
C4_CoverHandling ==
    (opf # NoOpf /\ nav # NoNav) =>
      /\ CoverPresent(config) =>
           /\ Cardinality({ j \in DOMAIN opf.manifest :
                              opf.manifest[j].id = << "cover-image" >> }) = 1
           /\ opf.spine[1] = << "cover" >>
      /\ ~CoverConfigured(config) =>
           /\ \A p \in staging.files : Head(p.name) # "cover" /\ p # CoverDocPath
           /\ \A j \in DOMAIN opf.manifest :
                opf.manifest[j].id \notin { << "cover" >>, << "cover-image" >> }
           /\ \A i \in DOMAIN opf.spine : opf.spine[i] # << "cover" >>
           /\ \A i \in DOMAIN nav.toc : nav.toc[i].href # CoverHref
           /\ \A i \in DOMAIN nav.landmarks : nav.landmarks[i].href # CoverHref
           /\ \A i \in DOMAIN opf.meta : opf.meta[i].name # "cover"

\* C5: when the run has ended in an error, the output path does not hold
\* an incompletely written archive.
C5_NoPartialEpubOnFailure ==
    (pc = "exited" /\ exitCode # 0)
    => ~(output.exists /\ output.kind = "epub" /\ ~output.complete)

NoChaptersError == "ValueError: No chapter files found"

\* C6: when the run has ended and the input directory exists but holds no
\* chapter-*.md and no chap-*.md, in each of the three modes: the process
\* exited non-zero, the output path is as it was when the run started, and
\* the error is the no-chapters error (in EPUB mode the one failure that can
\* come before discovery is an OSError of the filesystem while _epub_temp
\* is created).
C6_NoChaptersFails ==
    (pc = "exited" /\ inputDir.exists
       /\ glob(inputDir, "chapter-") = {} /\ glob(inputDir, "chap-") = {})
    => /\ exitCode # 0
       /\ output = outputAtStart
       /\ \/ error = NoChaptersError
          \/ EpubMode /\ error = "OSError" /\ chapter_files = << >>

\* C6 witness: a directory that holds only notes.md, a PDF-mode run, an
\* output file that was there before: the no-chapters error, exit status 1,
\* the file untouched.
C6_Witness ==
    /\ pc = "exited"
    /\ inputDir = Dir({ MdFile("", << "n", "o", "t", "e", "s" >>, << "#", " ", "N" >>) })
    /\ Flag(config, "pdf") /\ ~Flag(config, "consolidate")
    /\ error = NoChaptersError
    /\ exitCode = 1
    /\ output = OldFile

Entities ==
    << [ text |-> EntAmp, char |-> "&" ], [ text |-> EntLt, char |-> "<" ],
       [ text |-> EntGt, char |-> ">" ], [ text |-> EntQuot, char |-> "\"" ],
       [ text |-> EntApos, char |-> "'" ] >>

\* the entity that starts at position i of text, 0 when none does
EntityAt(text, i) ==
    LET hits == { e \in DOMAIN Entities :
                    /\ i + Len(Entities[e].text) - 1 <= Len(text)
                    /\ SubSeq(text, i, i + Len(Entities[e].text) - 1)
                         = Entities[e].text }
    IN  IF hits = {} THEN 0 ELSE CHOOSE e \in hits : TRUE

\* the text with each of the five entities replaced by its character
RECURSIVE Unescape(_)
Unescape(text) ==
    IF text = << >> THEN << >>
    ELSE LET e == EntityAt(text, 1)
         IN  IF e = 0 THEN << Head(text) >> \o Unescape(Tail(text))
             ELSE << Entities[e].char >>
                  \o Unescape(SubSeq(text, Len(Entities[e].text) + 1, Len(text)))

\* C7: the text _escape_xml returns holds no raw <, >, double quote or
\* apostrophe, every & in it starts one of the five entities, and
\* unescaping it gives back the original text.
C7_EscapeXmlSafe ==
    pc = "escaped" =>
      /\ \A i \in DOMAIN fnResult : fnResult[i] \notin { "<", ">", "\"", "'" }
      /\ \A i \in DOMAIN fnResult : fnResult[i] = "&" => EntityAt(fnResult, i) # 0
      /\ Unescape(fnResult) = fnInput

\* C7 witness: the text &lt; (an entity already spelled out in the input)
\* was escaped to &amp;lt; with the later replacements leaving its & alone
C7_Witness ==
    /\ pc = "escaped"
    /\ fnInput = << "&", "l", "t", ";" >>
    /\ fnResult = << "&", "a", "m", "p", ";", "l", "t", ";" >>

\* the lines of a text (split at newlines)
RECURSIVE Lines(_)
Lines(text) ==
    IF \A i \in DOMAIN text : text[i] # "\n" THEN << text >>
    ELSE LET nl == CHOOSE i \in DOMAIN text :
                       text[i] = "\n" /\ \A j \in 1..(i - 1) : text[j] # "\n"
         IN  << SubSeq(text, 1, nl - 1) >> \o Lines(SubSeq(text, nl + 1, Len(text)))

\* a line that is a level-1 heading: '#', white space, then text
IsHeadingLine(line) == HeadingAt(line, 1)

\* C8: the title of the chapter at position n is the text after '# ' on the
\* first line that is a level-1 heading, and 'Chapter n' when no line is one.
C8_TitleFromHeadingLine ==
    pc = "titled" =>
      LET lines == Lines(fnInput)
          headings == { i \in DOMAIN lines : IsHeadingLine(lines[i]) }
      IN  IF headings = {} THEN fnResult = ChapterWord \o StrOf(fnIdx)
          ELSE fnResult = HeadingGroup(
                   lines[CHOOSE i \in headings : \A j \in headings : i <= j], 1)

\* the paths the run itself writes into the staging tree
OwnPaths ==
    { MimetypePath, ContainerPath, OpfPath, NavPath, CssPath, CoverDocPath }
    \cup { CoverImagePath(c) : c \in { CoverArt, CoverMissing } }
    \cup { ChapterPath(i) : i \in 1..Len(chapter_files) }

\* C9: in EPUB mode, the staging tree is empty right after
\* _create_structure and from then on holds only what this run wrote (no
\* file of an earlier tree), nor does the archive; a run that packaged and
\* returned has removed the staging directory and left a complete archive; a
\* run with no_package that returned has left the directory with the
\* assembled files and has written no archive.
C9_StagingLifecycle ==
    /\ pc = "process_chapters" => staging = Dir({})
    /\ pc \in { "copy_assets", "generate_mimetype", "generate_container_xml",
                "generate_content_opf", "generate_nav_xhtml", "generate_css",
                "package", "package_mimetype", "package_walk", "cleanup" }
         => staging.exists /\ staging.files \subseteq OwnPaths
    /\ \A i \in DOMAIN archive :
         archive[i].arcname \in OwnPaths /\ archive[i].arcname # StaleChapter
    /\ (pc = "exited" /\ exitCode = 0 /\ EpubMode /\ ~Flag(config, "no_package"))
         => ~staging.exists /\ output = File("epub", TRUE)
    /\ (pc = "exited" /\ exitCode = 0 /\ EpubMode /\ Flag(config, "no_package"))
         => /\ staging.exists
            /\ { MimetypePath, ContainerPath, OpfPath, NavPath, CssPath }
                 \subseteq staging.files
            /\ StaleChapter \notin staging.files
            /\ output = outputAtStart
            /\ archive = << >>

\* C9 witness: a run that found a stale _epub_temp, packaged and returned:
\* the archive is complete without the stale chapter, the directory is gone.
C9_Witness ==
    /\ pc = "exited"
    /\ exitCode = 0
    /\ stagingAtStart = StaleTree
    /\ output = File("epub", TRUE)
    /\ Len(archive) = 6
    /\ ~staging.exists

\* the value the claim expects for a string option: the command line's,
\* else the file's, else the default
Expected(dest, default) ==
    IF dest \in DOMAIN cli THEN cli[dest]
    ELSE IF "config" \in DOMAIN cli /\ dest \in DOMAIN fileCfg THEN fileCfg[dest]
    ELSE default

\* C10: in the dict load_config returns, every recognized option has the
\* value given on the command line when the user gave one, else the value
\* the configuration file sets, else the default.
C10_CliOverFileOverDefault ==
    pc = "build" =>
      /\ config["title"] = Expected("title", Untitled)
      /\ config["author"] = Expected("author", UnknownAuthor)
      /\ config["language"] = Expected("language", "en")
      /\ config["input_dir"] = Expected("input_dir", "manuscript")
      /\ config["output"] =
           Expected("output",
                    IF Expected("consolidate", FALSE) THEN "consolidated-manuscript.md"
                    ELSE IF Expected("pdf", FALSE) THEN "book.pdf"
                    ELSE "book.epub")
      /\ CoverConfigured(config)
           = ("cover" \in DOMAIN cli
                \/ ("config" \in DOMAIN cli /\ "cover" \in DOMAIN fileCfg))
      /\ CoverConfigured(config) => config["cover"] = Expected("cover", CoverArt)
      /\ \A flag \in { "consolidate", "no_package", "pdf", "pdf_cover" } :
           Flag(config, flag) = Expected(flag, FALSE)
      /\ config["pdf_toc"] = Expected("pdf_toc", TRUE)
      /\ (IF "pdf_paper_size" \in DOMAIN config THEN config["pdf_paper_size"]
          ELSE "a4") = Expected("pdf_paper_size", "a4")


\* texts joined by a separator: sep stands between neighbours only
RECURSIVE JoinWith(_, _)
JoinWith(texts, sep) ==
    IF texts = << >> THEN << >>
    ELSE IF Len(texts) = 1 THEN texts[1]
    ELSE texts[1] \o sep \o JoinWith(Tail(texts), sep)

\* how many times pat occurs in text
Occurrences(text, pat) ==
    Cardinality({ i \in 1..(Len(text) - Len(pat) + 1) :
                    SubSeq(text, i, i + Len(pat) - 1) = pat })

ConsolidateMode == pc \notin { "main", "load_config" } /\ Flag(config, "consolidate")

ConsolidateDone == ConsolidateMode /\ pc = "exited" /\ exitCode = 0

\* what holds of a consolidation run whatever the text written is: the
\* chapters are the matched files in ascending numeric order, the output is
\* a Markdown file with n - 1 separators, and the run never touches
\* _epub_temp nor writes an archive
ConsolidateFrame ==
    /\ ConsolidateMode => staging = stagingAtStart /\ archive = << >>
                            /\ output.kind # "epub"
    /\ ConsolidateDone =>
         /\ Len(chapter_files) >= 1
         /\ { chapter_files[k] : k \in DOMAIN chapter_files } = Matched
         /\ \A i, j \in DOMAIN chapter_files :
              i < j => EmbeddedNumber(chapter_files[i])
                         <= EmbeddedNumber(chapter_files[j])
         /\ output = File("markdown", TRUE)
         /\ Occurrences(consolidated, Separator) = Len(chapter_files) - 1

\* C11 (amended): a consolidation run that returned has written the contents
\* of the n >= 1 discovered files, each stripped of the white space at its
\* two ends, in ascending numeric order, joined by "\n\n---\n\n": n - 1
\* separators, none before the first chapter and none after the last; the
\* run leaves _epub_temp as it was and writes no archive.
C11_ConsolidatedStripped ==
    /\ ConsolidateFrame
    /\ ConsolidateDone =>
         consolidated =
           JoinWith([ k \in DOMAIN chapter_files |-> strip(chapter_files[k].content) ],
                    Separator)

\* C11 witness: chapter-2.md and chapter-1.md consolidated: "# A" (its final
\* newline stripped), the separator, then the text of chapter-2.md
C11_Witness ==
    /\ ConsolidateDone
    /\ Len(chapter_files) = 2
    /\ consolidated = << "#", " ", "A" >> \o Separator
                        \o << "a", "\n", "#", " ", "B" >>

\* C11 as stated: the output is the contents of the files themselves, in
\* ascending numeric order, joined by "\n\n---\n\n"
C11_ConsolidatedContents ==
    /\ ConsolidateFrame
    /\ ConsolidateDone =>
         consolidated =
           JoinWith([ k \in DOMAIN chapter_files |-> chapter_files[k].content ],
                    Separator)

\* the modes that write the output file themselves: consolidation, and EPUB
\* mode with packaging
WritesOutput ==
    \/ Flag(config, "consolidate")
    \/ EpubMode /\ ~Flag(config, "no_package")

\* C12: a run of a mode that writes an output file, started with the parent
\* directory of the output path missing, does not fail on the missing
\* directory, and when it returns the directory exists and holds the
\* output file.
C12_OutputParentCreated ==
    (pc = "exited" /\ ~outputParentAtStart /\ WritesOutput)
    => /\ error # "FileNotFoundError"
       /\ exitCode = 0 => outputParent /\ output.exists /\ output.complete

\* C13: an EPUB-mode run that ended with the no-chapters error has left
\* _epub_temp as it was when the run started (not created, and a
\* pre-existing one not removed), and the output path likewise.
C13_NoChaptersBeforeStaging ==
    (pc = "exited" /\ EpubMode /\ error = NoChaptersError)
    => /\ staging = stagingAtStart
       /\ output = outputAtStart
       /\ outputParent = outputParentAtStart

\* the file of the staging tree an href of a document in OEBPS names
StagedPath(href) == Path(<< "OEBPS" >> \o href.dir, href.name)

\* the links of both navs of the navigation document
NavLinks == nav.toc \o nav.landmarks

\* C14: once the navigation document is written (and until the tree is
\* removed): the links of the TOC other than the cover link are the
\* chapters, in the order of the spine; the TOC has a cover link exactly
\* when cover.xhtml is in the staging tree; every target of a TOC or
\* landmarks link is a file of the staging tree and the href of a manifest
\* item.
C14_NavLinksResolve ==
    (nav # NoNav /\ pc # "exited") =>
      LET chapterLinks == SelectSeq(nav.toc, LAMBDA l : l.href # CoverHref)
      IN  /\ [ k \in DOMAIN chapterLinks |-> chapterLinks[k].href ]
               = [ k \in DOMAIN chapters |-> chapters[k].href ]
          /\ [ k \in DOMAIN chapters |-> chapters[k].id ]
               = SelectSeq(opf.spine, IsChapterId)
          /\ (\E i \in DOMAIN nav.toc : nav.toc[i].href = CoverHref)
               <=> CoverDocPath \in staging.files
          /\ \A i \in DOMAIN NavLinks :
               /\ StagedPath(NavLinks[i].href) \in staging.files
               /\ \E j \in DOMAIN opf.manifest :
                    opf.manifest[j].href = NavLinks[i].href

\* k as two decimal digits, zero-padded (k < 100)
TwoDigits(k) == << DigitChars[(k \div 10) + 1], DigitChars[(k % 10) + 1] >>

\* chapter discovery and transformation are over
ChaptersProcessed ==
    pc \in { "copy_assets", "generate_mimetype", "generate_container_xml",
             "generate_content_opf", "generate_nav_xhtml", "generate_css",
             "package", "package_mimetype", "package_walk", "cleanup" }

\* the chapter documents in the staging tree
StagedChapters ==
    { p \in staging.files :
        p.dir = << "OEBPS", "Text" >> /\ Head(p.name) = "chapter-" }

\* C15: the k-th record of the chapter list is made from the k-th file of
\* the sorted sequence, is named chapter-KK.xhtml with id chapKK (KK = k as
\* two digits, whatever number the source file embeds), and its document
\* is in Text/; names and ids are pairwise distinct; once all chapters are
\* processed there are exactly n records and n chapter documents for the n
\* discovered files.
C15_ContiguousNumbering ==
    /\ \A k \in DOMAIN chapters :
         /\ chapters[k].filename
              = << "chapter-" >> \o TwoDigits(k) \o << ".xhtml" >>
         /\ chapters[k].id = << "chap" >> \o TwoDigits(k)
         /\ chapters[k].href = Href(<< "Text" >>, chapters[k].filename)
         /\ chapters[k].title = ChapterTitle(chapter_files[k].content, k)
         /\ ChaptersProcessed =>
              Path(<< "OEBPS", "Text" >>, chapters[k].filename) \in staging.files
    /\ \A j, k \in DOMAIN chapters :
         j # k => /\ chapters[j].filename # chapters[k].filename
                  /\ chapters[j].id # chapters[k].id
    /\ ChaptersProcessed =>
         /\ Len(chapters) = Cardinality(Matched)
         /\ Len(chapters) = Len(chapter_files)
         /\ Len(chapters) >= 1
         /\ Cardinality(StagedChapters) = Len(chapters)

\* C15 witness: chapter-1.md and chapter-10.md were processed; the second
\* is chapter-02.xhtml with id chap02
C15_Witness ==
    /\ ChaptersProcessed
    /\ Len(chapters) = 2
    /\ chapter_files[2].rest = << "1", "0" >>
    /\ chapters[2].filename = << "chapter-", "0", "2", ".xhtml" >>
    /\ chapters[2].id = << "chap", "0", "2" >>

\* the failures of a run that do not come from chapter discovery: the
\* filesystem, the input directory check of load_config, Pandoc
EnvironmentErrors ==
    { "OSError", "FileNotFoundError", "ValueError: Input directory not found",
      "RuntimeError: Pandoc is not installed",
      "RuntimeError: PDF conversion failed" }

\* C16: in every mode, discovery ends in one of two ways.  Either it yields
\* a non-empty sequence: the matched files in ascending order of the
\* embedded number, chap-* files only when no chapter-* file matched.  Or
\* the run fails with the no-chapters error: a run that failed with no
\* chapter sequence, and not on its environment, failed with that error
\* (also when a matched name has no digits after the prefix).
C16_DiscoveryTwoOutcomes ==
    /\ chapter_files # << >> =>
         /\ { chapter_files[k] : k \in DOMAIN chapter_files } = Matched
         /\ \A i, j \in DOMAIN chapter_files :
              i < j => EmbeddedNumber(chapter_files[i])
                         <= EmbeddedNumber(chapter_files[j])
         /\ (\E k \in DOMAIN chapter_files : chapter_files[k].prefix = "chap-")
              => glob(inputDir, "chapter-") = {}
    /\ (pc = "exited" /\ exitCode # 0 /\ chapter_files = << >>
          /\ error \notin EnvironmentErrors)
         => error = NoChaptersError

====
